---- MODULE Spec2Model ----
(***************************************************************************)
(* A model of the single-tape Turing machine interpreter of src/main.py:   *)
(* class TuringMachine (reset, step, run) and the default binary-increment *)
(* machine that TMGUIApplication.load_default_tm builds; then its          *)
(* load_from_json and save_to_json, run's callback, and the threads of     *)
(* TMGUIApplication that call the machine.                                 *)
(*                                                                         *)
(* Python strings are modelled as sequences of one-character strings, so   *)
(* list(input_string) is the sequence of the input's characters.           *)
(***************************************************************************)
EXTENDS Integers, Sequences, FiniteSets, TLC

VARIABLES
    \* ---- TuringMachine fields set by __init__ (lines 9-16)
    states, input_alphabet, tape_alphabet, blank_symbol,
    transitions, start_state, accept_states, reject_states,
    \* ---- TuringMachine fields set by reset (lines 20-23)
    tape, head, current_state, history,
    \* ---- the frame of a call of run (lines 47-59)
    pc,          \* "idle": no call of run is active; "loop": at the while test;
                 \* "return": at line 59
    steps,       \* run's local counter
    max_steps,   \* run's parameter
    exit,        \* how the while loop of the last run was left
    \* ---- what the caller sees
    lastOp,      \* the operation that completed last
    ret,         \* the value it returned (step and run return a boolean)
    \* ---- history variables of the verification (no counterpart in the code)
    input,       \* the argument of the last reset
    dirtyReset,  \* the last operation was a reset of a machine that had applied steps
    fresh,       \* no step has been attempted since the last reset
    runFresh,    \* the active (or last) run was called on a fresh machine
    runBase,     \* the value of applied when the active (or last) run was called
    applied,     \* number of step() calls that returned True since the last reset
    pre,         \* the (state, tape, head) before each of them
    refTape, refHead, refState,  \* a reference machine on a bi-infinite tape
    origin,      \* number of left extensions since the last reset
    watch, memo  \* determinism: the watched (input, N) and its first result

VARIABLES
    \* ---- the file of save_to_json and load_from_json (lines 61-78)
    file,        \* the record save_to_json wrote last
    loadResult,  \* "ok" or "error": how the last load_from_json ended
    \* ---- history variables of the verification
    savedCfg,    \* the configuration the machine held when it was saved
    loadedSaved  \* the last load read the file that save_to_json wrote

VARIABLES
    \* ---- run's callback and delay (lines 47, 56-58)
    callback,    \* the run was given a callback
    delay,       \* the delay it was given
    inCallback,  \* the run is at lines 56-58, after steps += 1
    notified,    \* number of calls of the callback in this run
    \* ---- history variables of the verification
    obsLog,      \* what the callback saw at each call: (state, tape, head)
    obsMemo,     \* the first result of the watched reset; run, and its callback
    cancelRequested,  \* the caller has asked the run to stop
    cancelAt     \* the number of steps the run had applied when asked

VARIABLES
    \* ---- history variables of the verification: resuming a run
    phase,       \* "single", "first", "second": which run of the comparison
    firstArg,    \* the bound of the first run of run(a); run(b)
    singleRes,   \* what reset; run(a + b) left
    splitRes     \* what reset; run(a); run(b) left

VARIABLES
    \* ---- the GUI's threads (lines 165-181)
    threads,     \* the frame of each worker thread on_run started
    \* ---- history variables of the verification
    writers      \* the threads that changed the machine while a run was active

codecVars == <<file, loadResult, savedCfg, loadedSaved>>
obsVars == <<callback, delay, inCallback, notified, obsLog, obsMemo,
             cancelRequested, cancelAt>>
resumeVars == <<phase, firstArg, singleRes, splitRes>>
guiVars == <<threads, writers>>
extVars == <<codecVars, obsVars, resumeVars, guiVars>>

cfgVars == <<states, input_alphabet, tape_alphabet, blank_symbol,
             transitions, start_state, accept_states, reject_states>>
runVars == <<tape, head, current_state, history>>
frameVars == <<pc, steps, max_steps, exit>>
ghostVars == <<input, dirtyReset, fresh, runFresh, runBase, applied, pre, refTape, refHead, refState, origin>>
vars == <<cfgVars, runVars, frameVars, lastOp, ret, ghostVars, watch, memo, extVars>>

----------------------------------------------------------------------------
(* Bounds of the model *)

\* most worker threads of the GUI running at once
MaxWorkers == 2

\* longest input string given to reset
MaxLen == 4
\* largest explicit step bound given to run
MaxRun == 5
\* applied steps explored after a reset: enough for the increment machine to
\* finish on every input of MaxLen characters (2 * MaxLen + 2 steps)
MaxHist == 2 * MaxLen + 4

\* run's default for max_steps
DefaultMaxSteps == 100000

----------------------------------------------------------------------------
(* Machine configurations *)

\* The binary-increment machine of load_default_tm
DefaultTM ==
    [ states         |-> {"q0", "q1", "q_accept"},
      input_alphabet |-> {"0", "1"},
      tape_alphabet  |-> {"0", "1", "_"},
      blank_symbol   |-> "_",
      transitions    |->
          ( <<"q0", "0">> :> <<"q0", "0", "R">> @@
            <<"q0", "1">> :> <<"q0", "1", "R">> @@
            <<"q0", "_">> :> <<"q1", "_", "L">> @@
            <<"q1", "0">> :> <<"q_accept", "1", "R">> @@
            <<"q1", "1">> :> <<"q1", "0", "L">> @@
            <<"q1", "_">> :> <<"q_accept", "1", "R">> ),
      start_state    |-> "q0",
      accept_states  |-> {"q_accept"},
      reject_states  |-> {} ]

\* A machine that never accepts, rejects or halts: it walks right for ever
LoopTM ==
    [ states         |-> {"q0"},
      input_alphabet |-> {"0", "1"},
      tape_alphabet  |-> {"0", "1", "_"},
      blank_symbol   |-> "_",
      transitions    |->
          ( <<"q0", "0">> :> <<"q0", "0", "R">> @@
            <<"q0", "1">> :> <<"q0", "1", "R">> @@
            <<"q0", "_">> :> <<"q0", "_", "R">> ),
      start_state    |-> "q0",
      accept_states  |-> {},
      reject_states  |-> {} ]

\* A machine that walks left for ever, writing at every cell it visits
LeftTM ==
    [ states         |-> {"q0", "q1"},
      input_alphabet |-> {"0", "1"},
      tape_alphabet  |-> {"0", "1", "_"},
      blank_symbol   |-> "_",
      transitions    |->
          ( <<"q0", "0">> :> <<"q1", "1", "L">> @@
            <<"q0", "1">> :> <<"q1", "_", "L">> @@
            <<"q0", "_">> :> <<"q1", "1", "L">> @@
            <<"q1", "_">> :> <<"q0", "0", "L">> ),
      start_state    |-> "q0",
      accept_states  |-> {},
      reject_states  |-> {} ]

\* A machine with accepting and rejecting states that have transitions of
\* their own, and with undefined entries (halting configurations)
DecideTM ==
    [ states         |-> {"q0", "q1", "qa", "qr"},
      input_alphabet |-> {"0", "1"},
      tape_alphabet  |-> {"0", "1", "_"},
      blank_symbol   |-> "_",
      transitions    |->
          ( <<"q0", "0">> :> <<"q1", "1", "R">> @@
            <<"q0", "1">> :> <<"qr", "0", "R">> @@
            <<"q1", "0">> :> <<"qa", "0", "L">> @@
            <<"q1", "_">> :> <<"q1", "0", "L">> @@
            <<"qa", "1">> :> <<"q0", "0", "R">> @@
            <<"qa", "_">> :> <<"q0", "1", "R">> @@
            <<"qr", "_">> :> <<"q0", "1", "R">> ),
      start_state    |-> "q0",
      accept_states  |-> {"qa"},
      reject_states  |-> {"qr"} ]

\* A machine whose start state is accepting and has transitions
StartAcceptTM ==
    [ states         |-> {"qa", "q1"},
      input_alphabet |-> {"0", "1"},
      tape_alphabet  |-> {"0", "1", "_"},
      blank_symbol   |-> "_",
      transitions    |->
          ( <<"qa", "0">> :> <<"q1", "1", "R">> @@
            <<"qa", "1">> :> <<"qa", "1", "L">> @@
            <<"qa", "_">> :> <<"q1", "0", "L">> @@
            <<"q1", "1">> :> <<"qa", "_", "R">> @@
            <<"q1", "_">> :> <<"q1", "_", "R">> ),
      start_state    |-> "qa",
      accept_states  |-> {"qa"},
      reject_states  |-> {} ]

Configs == {DefaultTM, LoopTM, LeftTM, DecideTM, StartAcceptTM}

\* The input strings: every string over {0, 1} of at most MaxLen characters
Inputs == UNION { [1..n -> {"0", "1"}] : n \in 0..MaxLen }

\* The step bounds given to run: explicit ones and the default
RunArgs == (0..MaxRun) \cup {DefaultMaxSteps}

----------------------------------------------------------------------------
(* TuringMachine.step, lines 25-45 *)

\* line 26: the symbol under the head, the blank outside the stored tape.
\* Python's index i is TLA+'s index i + 1.
ReadSymbol(t, h, blank) ==
    IF 0 <= h /\ h < Len(t) THEN t[h + 1] ELSE blank

\* line 27
Key == <<current_state, ReadSymbol(tape, head, blank_symbol)>>

\* line 28
HasTransition == Key \in DOMAIN transitions

\* line 32: ''.join(self.tape), the tape's symbols as one string
RECURSIVE Join(_)
Join(t) == IF t = <<>> THEN <<>> ELSE <<Head(t)>> \o Join(Tail(t))

\* faulty variant: a write left of the tape is appended like one right of it
WriteTapeAppendOnly(t, h, w) ==
    IF 0 <= h /\ h < Len(t) THEN [t EXCEPT ![h + 1] = w] ELSE Append(t, w)

\* lines 34-41: the tape after the write
WriteTape(t, h, w) ==
    IF 0 <= h /\ h < Len(t)
    THEN [t EXCEPT ![h + 1] = w]
    ELSE IF h < 0 THEN <<w>> \o t
                  ELSE Append(t, w)

\* faulty variant: line 39 is missing
HeadNotRebased(t, h) == h

\* lines 34-41: the head after the write (line 39 re-bases it)
HeadAfterWrite(t, h) ==
    IF 0 <= h /\ h < Len(t) THEN h
    ELSE IF h < 0 THEN 0 ELSE h

\* faulty variant: the snapshot is taken after the write
HistoryEntryAfterWrite ==
    <<current_state, Join(WriteTape(tape, head, transitions[Key][2])), head>>

\* line 32: the entry appended to the history
HistoryEntry == <<current_state, Join(tape), head>>

\* faulty variant: the directions are swapped
MoveSwapped(h, direction) == h + (IF direction = "R" THEN -1 ELSE 1)

\* line 43
Move(h, direction) == h + (IF direction = "R" THEN 1 ELSE -1)

\* lines 30-45: what an applied step does to the machine
StepApply ==
    LET new_state    == transitions[Key][1]
        write_symbol == transitions[Key][2]
        direction    == transitions[Key][3]
    IN  /\ history' = Append(history, HistoryEntry)
        /\ tape' = WriteTape(tape, head, write_symbol)
        /\ head' = Move(HeadAfterWrite(tape, head), direction)
        /\ current_state' = new_state

\* faulty variant: the history entry is appended before the lookup
StepRefuseLogged ==
    /\ history' = Append(history, HistoryEntry)
    /\ UNCHANGED <<tape, head, current_state>>

\* lines 28-29: without a transition step returns at once
StepRefuse == UNCHANGED runVars

\* The reference machine: a bi-infinite blank-filled tape, held as the finite
\* function of the cells written so far.
RefRead(p) == IF p \in DOMAIN refTape THEN refTape[p] ELSE blank_symbol

RefKey == <<refState, RefRead(refHead)>>

RefStep ==
    LET w == transitions[RefKey][2]
        d == transitions[RefKey][3]
    IN  /\ refTape' = [p \in DOMAIN refTape \cup {refHead} |->
                          IF p = refHead THEN w ELSE refTape[p]]
        /\ refHead' = IF d = "R" THEN refHead + 1 ELSE refHead - 1
        /\ refState' = transitions[RefKey][1]

\* What the history variables record of a call of step
StepGhost ==
    /\ fresh' = FALSE
    /\ dirtyReset' = FALSE
    /\ UNCHANGED input
    /\ IF HasTransition
       THEN /\ applied' = applied + 1
            /\ pre' = Append(pre, [state |-> current_state, tape |-> tape, head |-> head])
            /\ origin' = IF head < 0 THEN origin + 1 ELSE origin
            /\ IF RefKey \in DOMAIN transitions
               THEN RefStep
               ELSE UNCHANGED <<refTape, refHead, refState>>
       ELSE UNCHANGED <<applied, pre, origin, refTape, refHead, refState>>

\* step(): its effect on the machine; the value it returns is HasTransition
step ==
    /\ HasTransition => Len(history) < MaxHist
    /\ IF HasTransition THEN StepApply ELSE StepRefuse
    /\ StepGhost

----------------------------------------------------------------------------
(* The operations, called one at a time *)

\* no (input, N) is watched; nothing is remembered yet
NoWatch == [input |-> <<>>, n |-> -1]
NoResult == [seen |-> 0]

\* the configuration the machine holds, as one record
CurrentConfig ==
    [ states |-> states, input_alphabet |-> input_alphabet,
      tape_alphabet |-> tape_alphabet, blank_symbol |-> blank_symbol,
      transitions |-> transitions, start_state |-> start_state,
      accept_states |-> accept_states, reject_states |-> reject_states ]

\* no file has been written
NoFile == [exists |-> FALSE]

\* the worker threads on_run can have started, and a thread that is not running
Workers == 1..MaxWorkers
IdleFrame == [pc |-> "idle", steps |-> 0]

\* the variables beyond the machine, before anything has happened
InitExt ==
    /\ file = NoFile /\ loadResult = "none"
    /\ savedCfg = NoFile /\ loadedSaved = FALSE
    /\ callback = FALSE /\ delay = 0 /\ inCallback = FALSE
    /\ notified = 0 /\ obsLog = <<>> /\ obsMemo = [seen |-> 0]
    /\ cancelRequested = FALSE /\ cancelAt = 0
    /\ phase = "none" /\ firstArg = 0
    /\ singleRes = [seen |-> FALSE] /\ splitRes = [seen |-> FALSE]
    /\ threads = [w \in Workers |-> IdleFrame]
    /\ writers = {}

\* __init__, lines 9-17, on one of the configurations cs; reset() at line 17
InitMachineOn(cs) ==
    /\ \E c \in cs :
          /\ states = c.states
          /\ input_alphabet = c.input_alphabet
          /\ tape_alphabet = c.tape_alphabet
          /\ blank_symbol = c.blank_symbol
          /\ transitions = c.transitions
          /\ start_state = c.start_state
          /\ accept_states = c.accept_states
          /\ reject_states = c.reject_states
    /\ tape = <<>>
    /\ head = 0
    /\ current_state = start_state
    /\ history = <<>>
    /\ pc = "idle" /\ steps = 0 /\ max_steps = 0 /\ exit = "none"
    /\ lastOp = "init" /\ ret = "None"
    /\ input = <<>> /\ dirtyReset = FALSE
    /\ fresh = TRUE /\ runFresh = FALSE /\ runBase = 0
    /\ applied = 0 /\ pre = <<>>
    /\ refTape = <<>> /\ refHead = 0 /\ refState = start_state
    /\ origin = 0
    /\ memo = NoResult
    /\ InitExt

InitMachine == InitMachineOn(Configs)

Init == InitMachine /\ watch = NoWatch

\* faulty variant: an empty input leaves the old tape in place
ResetTapeKeepsOld(input_string) == IF input_string # <<>> THEN input_string ELSE tape

\* line 20: list(input_string) if input_string else []
ResetTape(input_string) == IF input_string # <<>> THEN input_string ELSE <<>>

\* faulty variant: reset leaves the head where it was
ResetHeadKept == head

\* line 21
ResetHead == 0

\* faulty variant: line 22 assigns the other way round, start_state from
\* current_state
ResetSwapped(input_string) ==
    /\ pc = "idle"
    /\ tape' = ResetTape(input_string)
    /\ head' = ResetHead
    /\ start_state' = current_state
    /\ history' = <<>>
    /\ lastOp' = "reset" /\ ret' = "None"
    /\ exit' = "none" /\ steps' = 0 /\ max_steps' = 0
    /\ input' = input_string /\ dirtyReset' = (history # <<>>)
    /\ fresh' = TRUE /\ runFresh' = FALSE /\ runBase' = 0
    /\ applied' = 0 /\ pre' = <<>>
    /\ refTape' = [p \in 0..(Len(input_string) - 1) |-> input_string[p + 1]]
    /\ refHead' = 0 /\ refState' = current_state
    /\ origin' = 0
    /\ UNCHANGED <<states, input_alphabet, tape_alphabet, blank_symbol,
                   transitions, accept_states, reject_states,
                   current_state, pc, watch, memo>>

\* reset(input_string), lines 19-23
Reset(input_string) ==
    /\ pc = "idle"
    /\ tape' = ResetTape(input_string)
    /\ head' = ResetHead
    /\ current_state' = start_state
    /\ history' = <<>>
    /\ lastOp' = "reset" /\ ret' = "None"
    /\ exit' = "none" /\ steps' = 0 /\ max_steps' = 0
    /\ input' = input_string /\ dirtyReset' = (history # <<>>)
    /\ fresh' = TRUE /\ runFresh' = FALSE /\ runBase' = 0
    /\ applied' = 0 /\ pre' = <<>>
    /\ refTape' = [p \in 0..(Len(input_string) - 1) |-> input_string[p + 1]]
    /\ refHead' = 0 /\ refState' = start_state
    /\ origin' = 0
    /\ UNCHANGED <<cfgVars, pc, watch, memo>>

\* a call of step() by the caller, lines 25-45
StepCall ==
    /\ pc = "idle"
    /\ step
    /\ ret' = HasTransition
    /\ lastOp' = "step"
    /\ exit' = "none" /\ steps' = 0 /\ max_steps' = 0
    /\ UNCHANGED <<cfgVars, pc, runFresh, runBase, watch, memo>>

\* faulty variant: the step counter is not started at 0 but carried over from
\* the run before
RunCallKeepsCount(n) ==
    /\ pc = "idle"
    /\ pc' = "loop"
    /\ steps' = steps
    /\ max_steps' = n
    /\ exit' = "none"
    /\ runFresh' = fresh
    /\ runBase' = applied
    /\ fresh' = FALSE
    /\ dirtyReset' = FALSE
    /\ UNCHANGED <<cfgVars, runVars, lastOp, ret, input, applied, pre,
                   refTape, refHead, refState, origin, watch, memo>>

\* run(max_steps) is called: lines 47-48
RunCall(n) ==
    /\ pc = "idle"
    /\ pc' = "loop"
    /\ steps' = 0
    /\ max_steps' = n
    /\ exit' = "none"
    /\ runFresh' = fresh
    /\ runBase' = applied
    /\ fresh' = FALSE
    /\ dirtyReset' = FALSE
    /\ UNCHANGED <<cfgVars, runVars, lastOp, ret, input, applied, pre,
                   refTape, refHead, refState, origin, watch, memo>>

\* faulty variant: the while test is off by one
LoopTestInclusive == steps <= max_steps

\* line 49: the while test
LoopTest == steps < max_steps

\* faulty variant: only the accepting states stop the loop
TerminalAcceptOnly == current_state \in accept_states

\* line 50
Terminal == current_state \in accept_states \/ current_state \in reject_states

\* one pass of the while loop, lines 49-55 (no callback is given)
RunIter ==
    /\ pc = "loop"
    /\ IF ~LoopTest
       THEN /\ pc' = "return" /\ exit' = "limit"
            /\ UNCHANGED <<runVars, steps, ghostVars>>
       ELSE IF Terminal
       THEN /\ pc' = "return" /\ exit' = "terminal"
            /\ UNCHANGED <<runVars, steps, ghostVars>>
       ELSE /\ step
            /\ IF ~HasTransition
               THEN pc' = "return" /\ exit' = "halt" /\ UNCHANGED steps
               ELSE pc' = "loop" /\ exit' = exit /\ steps' = steps + 1
            /\ UNCHANGED <<runFresh, runBase>>
    /\ UNCHANGED <<cfgVars, max_steps, lastOp, ret, watch, memo>>

\* what a completed run leaves behind, as the caller can see it
Result == [ret |-> ret, tape |-> tape, head |-> head,
           state |-> current_state, hist |-> Len(history)]

\* faulty variant: a state that is also rejecting does not count as accepting
RunValueUnlessRejecting == current_state \in accept_states \ reject_states

\* line 59: the value run returns
RunValue == current_state \in accept_states

\* line 59
RunReturn ==
    /\ pc = "return"
    /\ pc' = "idle"
    /\ ret' = RunValue
    /\ lastOp' = "run"
    /\ memo' = IF runFresh /\ watch = [input |-> input, n |-> max_steps]
               THEN IF memo.seen = 0
                    THEN [seen |-> 1, first |-> [Result EXCEPT !.ret = RunValue]]
                    ELSE [memo EXCEPT !.seen = 2]
               ELSE memo
    /\ UNCHANGED <<cfgVars, runVars, steps, max_steps, exit, ghostVars, watch>>

Next ==
    \/ \E input_string \in Inputs : Reset(input_string) /\ UNCHANGED extVars
    \/ StepCall /\ UNCHANGED extVars
    \/ \E n \in RunArgs : RunCall(n) /\ UNCHANGED extVars
    \/ RunIter /\ UNCHANGED extVars
    \/ RunReturn /\ UNCHANGED extVars

Spec == Init /\ [][Next]_vars

\* Determinism is checked on behaviours that watch one (input, N): the first
\* reset(input); run(N) is remembered and every later one compared with it.
\* The operations between them are resets, steps and runs.
MaxDetLen == 1

DetInputs == UNION { [1..n -> {"0", "1"}] : n \in 0..MaxDetLen }

InitDet ==
    /\ InitMachine
    /\ watch \in [input : DetInputs, n : RunArgs]

NextDet ==
    \/ \E input_string \in DetInputs : Reset(input_string) /\ UNCHANGED extVars
    \/ StepCall /\ UNCHANGED extVars
    \/ RunCall(watch.n) /\ UNCHANGED extVars
    \/ RunIter /\ UNCHANGED extVars
    \/ RunReturn /\ UNCHANGED extVars

SpecDet == InitDet /\ [][NextDet]_vars

----------------------------------------------------------------------------
(* Tables the constructor accepts although they break the invariants of a   *)
(* configuration: line 13 stores whatever table it is given and lines       *)
(* 15-16 whatever sets.                                                     *)

\* a table with two directions that are neither L nor R
BadDirTM ==
    [ states         |-> {"q0", "qa"},
      input_alphabet |-> {"0", "1"},
      tape_alphabet  |-> {"0", "1", "_"},
      blank_symbol   |-> "_",
      transitions    |->
          ( <<"q0", "0">> :> <<"q0", "1", "R">> @@
            <<"q0", "1">> :> <<"q0", "0", "S">> @@
            <<"q0", "_">> :> <<"qa", "_", "N">> ),
      start_state    |-> "q0",
      accept_states  |-> {"qa"},
      reject_states  |-> {} ]

\* a machine whose state qb is both accepting and rejecting
BothTM ==
    [ states         |-> {"q0", "qa", "qb", "qr"},
      input_alphabet |-> {"0", "1"},
      tape_alphabet  |-> {"0", "1", "_"},
      blank_symbol   |-> "_",
      transitions    |->
          ( <<"q0", "0">> :> <<"q0", "0", "R">> @@
            <<"q0", "1">> :> <<"qb", "1", "R">> @@
            <<"q0", "_">> :> <<"qr", "_", "L">> ),
      start_state    |-> "q0",
      accept_states  |-> {"qa", "qb"},
      reject_states  |-> {"qb", "qr"} ]

WideConfigs == {DecideTM, BadDirTM, BothTM}

InitWide == InitMachineOn(WideConfigs) /\ watch = NoWatch

\* the operations of Spec on the machines of WideConfigs
SpecWide == InitWide /\ [][Next]_vars

----------------------------------------------------------------------------
(* save_to_json and load_from_json, lines 61-78 *)

\* the parameters of __init__, in the order lines 9-16 assign them
InitOrder == <<"states", "input_alphabet", "tape_alphabet", "blank_symbol",
               "transitions", "start_state", "accept_states", "reject_states">>

FieldNames == {InitOrder[i] : i \in DOMAIN InitOrder}

\* the parameters __init__ passes through set(), lines 9-11 and 15-16
SetFields == {"states", "input_alphabet", "tape_alphabet",
              "accept_states", "reject_states"}

\* line 72: str(k) of the tuple k = (state, symbol), the text ('state', 'symbol'),
\* held as the sequence of its pieces. It is a string, not a pair.
StrKey(k) == <<"('", k[1], "', '", k[2], "')">>

\* line 72: {str(k): v for k, v in self.transitions.items()}; json writes the
\* tuple v as a list, which indexes as the tuple did
EncodeTransitions(tr) ==
    [s \in {StrKey(k) : k \in DOMAIN tr} |->
        tr[CHOOSE k \in DOMAIN tr : StrKey(k) = s]]

\* lines 67-76: the record save_to_json writes. parses: json.load accepts the
\* text; present: the keys of the record; nulls: the keys whose value is null
SaveData ==
    [ exists |-> TRUE, parses |-> TRUE, present |-> FieldNames, nulls |-> {},
      data |-> [CurrentConfig EXCEPT
                   !.transitions = EncodeTransitions(transitions)] ]

\* save_to_json(path), lines 66-78
SaveToJson ==
    /\ pc = "idle"
    /\ file' = SaveData
    /\ savedCfg' = CurrentConfig
    /\ lastOp' = "save" /\ ret' = "None"
    /\ UNCHANGED <<cfgVars, runVars, frameVars, ghostVars, watch, memo,
                   loadResult, loadedSaved>>

\* The records a file chooser can hand to load_from_json besides the saved
\* one: a record as the documented format writes it, text that is no JSON,
\* a record with a key missing, and records with null for a set.
GoodRecord(c) ==
    [ exists |-> TRUE, parses |-> TRUE, present |-> FieldNames, nulls |-> {},
      data |-> [c EXCEPT !.transitions = EncodeTransitions(c.transitions)] ]

Records ==
    LET good == GoodRecord(DecideTM)
    IN  { good,
          [good EXCEPT !.parses = FALSE],
          [good EXCEPT !.present = FieldNames \ {"reject_states"}],
          [good EXCEPT !.nulls = {"states"}],
          [good EXCEPT !.nulls = {"input_alphabet"}],
          [good EXCEPT !.nulls = {"reject_states"}] }

\* line 63 raises when the text is no JSON; line 64 raises before __init__
\* runs when a parameter is missing
LoadRaisesBeforeInit(r) == ~r.parses \/ r.present # FieldNames

\* the first of lines 9-16 that raises: set(None) is a TypeError; 9 when none does
FailAt(r) ==
    LET bad == {i \in DOMAIN InitOrder : InitOrder[i] \in r.nulls \cap SetFields}
    IN  IF bad = {} THEN Len(InitOrder) + 1
        ELSE CHOOSE i \in bad : \A j \in bad : i <= j

\* the value of field number i after __init__ ran up to the line that raises
Assigned(r, i, old) == IF i < FailAt(r) THEN r.data[InitOrder[i]] ELSE old

\* load_from_json(path) on the record r, lines 61-64, with the exception that
\* on_load_json catches at line 190
LoadFromJson(r) ==
    /\ pc = "idle"
    /\ r.exists
    /\ lastOp' = "load" /\ ret' = "None"
    /\ IF LoadRaisesBeforeInit(r)
       THEN /\ loadResult' = "error"
            /\ UNCHANGED <<cfgVars, runVars, frameVars, ghostVars>>
       ELSE \* self.__init__(**data), lines 9-17
            /\ states' = Assigned(r, 1, states)
            /\ input_alphabet' = Assigned(r, 2, input_alphabet)
            /\ tape_alphabet' = Assigned(r, 3, tape_alphabet)
            /\ blank_symbol' = Assigned(r, 4, blank_symbol)
            /\ transitions' = Assigned(r, 5, transitions)
            /\ start_state' = Assigned(r, 6, start_state)
            /\ accept_states' = Assigned(r, 7, accept_states)
            /\ reject_states' = Assigned(r, 8, reject_states)
            /\ IF FailAt(r) <= Len(InitOrder)
               THEN /\ loadResult' = "error"
                    /\ UNCHANGED <<runVars, frameVars, ghostVars>>
               ELSE \* line 17: self.reset()
                    /\ loadResult' = "ok"
                    /\ tape' = ResetTape(<<>>)
                    /\ head' = ResetHead
                    /\ current_state' = start_state'
                    /\ history' = <<>>
                    /\ exit' = "none" /\ steps' = 0 /\ max_steps' = 0
                    /\ input' = <<>> /\ dirtyReset' = (history # <<>>)
                    /\ fresh' = TRUE /\ runFresh' = FALSE /\ runBase' = 0
                    /\ applied' = 0 /\ pre' = <<>>
                    /\ refTape' = <<>> /\ refHead' = 0
                    /\ refState' = start_state'
                    /\ origin' = 0
                    /\ UNCHANGED pc
    /\ UNCHANGED <<watch, memo>>

\* on_load_json on the file save_to_json wrote
LoadSaved ==
    /\ LoadFromJson(file)
    /\ loadedSaved' = TRUE
    /\ UNCHANGED <<file, savedCfg>>

\* on_load_json on another file
LoadRecord(r) ==
    /\ LoadFromJson(r)
    /\ loadedSaved' = FALSE
    /\ UNCHANGED <<file, savedCfg>>

\* The machine with its file: resets of short inputs, steps and runs with the
\* default bound, saves and loads
NextCodec ==
    \/ \E input_string \in DetInputs : Reset(input_string) /\ UNCHANGED extVars
    \/ StepCall /\ UNCHANGED extVars
    \/ RunCall(DefaultMaxSteps) /\ UNCHANGED extVars
    \/ RunIter /\ UNCHANGED extVars
    \/ RunReturn /\ UNCHANGED extVars
    \/ SaveToJson /\ UNCHANGED <<obsVars, resumeVars, guiVars>>
    \/ LoadSaved /\ UNCHANGED <<obsVars, resumeVars, guiVars>>
    \/ \E r \in Records : LoadRecord(r) /\ UNCHANGED <<obsVars, resumeVars, guiVars>>

SpecCodec == Init /\ [][NextCodec]_vars

----------------------------------------------------------------------------
(* run with a callback and a delay, lines 47 and 56-58 *)

\* the delays given to run; line 58 waits that long and changes nothing
Delays == {0, 1}

\* what a callback that only looks at the machine sees, as draw_tape does
\* (lines 150-163)
ObsSnapshot == [state |-> current_state, tape |-> tape, head |-> head]

\* faulty variant: the callback is called after every call of step
CallbackDueAfterAnyStep == callback

\* lines 53-56: the callback is reached when step() returned True, and called
\* when one was given
CallbackDue == callback /\ HasTransition

\* the callback's variables of a run that is over
ObsIdle ==
    /\ callback' = FALSE /\ delay' = 0 /\ inCallback' = FALSE
    /\ notified' = 0 /\ obsLog' = <<>>
    /\ cancelRequested' = FALSE /\ cancelAt' = 0
    /\ UNCHANGED obsMemo

\* run(n, callback, delay) is called, line 47
RunCallObs(n, cb, d) ==
    /\ RunCall(n)
    /\ callback' = cb /\ delay' = d
    /\ inCallback' = FALSE /\ notified' = 0 /\ obsLog' = <<>>
    /\ cancelRequested' = FALSE /\ cancelAt' = 0
    /\ UNCHANGED obsMemo

\* one pass through the loop, lines 49-55, up to the test of line 56
RunIterObs ==
    /\ ~inCallback
    /\ RunIter
    /\ inCallback' = (LoopTest /\ ~Terminal /\ CallbackDue)
    /\ UNCHANGED <<callback, delay, notified, obsLog, obsMemo,
                   cancelRequested, cancelAt>>

\* lines 57-58: callback(), then the wait
Notify ==
    /\ inCallback
    /\ inCallback' = FALSE
    /\ notified' = notified + 1
    /\ obsLog' = Append(obsLog, ObsSnapshot)
    /\ UNCHANGED <<cfgVars, runVars, frameVars, lastOp, ret, ghostVars,
                   watch, memo, callback, delay, obsMemo,
                   cancelRequested, cancelAt>>

\* The caller asks the running run to stop. run has no parameter and the
\* machine no field for it (line 47, lines 9-23), and the loop tests only
\* its counter (line 49): the request reaches nothing.
RequestCancel ==
    /\ pc = "loop" /\ ~cancelRequested
    /\ cancelRequested' = TRUE
    /\ cancelAt' = steps
    /\ UNCHANGED <<cfgVars, runVars, frameVars, lastOp, ret, ghostVars,
                   watch, memo, callback, delay, inCallback, notified,
                   obsLog, obsMemo>>

\* what a completed run leaves behind, with the whole history
FullResult(r) == [ret |-> r, tape |-> tape, head |-> head,
                  state |-> current_state, history |-> history]

\* line 59, remembering the first result of the watched reset; run
RunReturnObs ==
    /\ ~inCallback
    /\ RunReturn
    /\ obsMemo' =
          IF runFresh /\ watch = [input |-> input, n |-> max_steps]
          THEN IF obsMemo.seen = 0
               THEN [seen |-> 1, cb |-> callback,
                     first |-> FullResult(RunValue)]
               ELSE IF obsMemo.cb # callback
                    THEN [obsMemo EXCEPT !.seen = 2]
                    ELSE obsMemo
          ELSE obsMemo
    /\ UNCHANGED <<callback, delay, inCallback, notified, obsLog,
                   cancelRequested, cancelAt>>

\* the machines and bounds of the runs with a callback
ObsConfigs == {DefaultTM, LoopTM, DecideTM}
ObsArgs == {1, MaxRun, DefaultMaxSteps}

InitObs ==
    /\ InitMachineOn(ObsConfigs)
    /\ watch \in [input : DetInputs, n : ObsArgs]

\* resets, steps, and runs of the watched bound with and without a callback
NextObs ==
    \/ \E input_string \in DetInputs :
          Reset(input_string) /\ ObsIdle /\ UNCHANGED <<codecVars, resumeVars, guiVars>>
    \/ StepCall /\ ObsIdle /\ UNCHANGED <<codecVars, resumeVars, guiVars>>
    \/ \E cb \in BOOLEAN, d \in Delays :
          RunCallObs(watch.n, cb, d) /\ UNCHANGED <<codecVars, resumeVars, guiVars>>
    \/ RunIterObs /\ UNCHANGED <<codecVars, resumeVars, guiVars>>
    \/ Notify /\ UNCHANGED <<codecVars, resumeVars, guiVars>>
    \/ RunReturnObs /\ UNCHANGED <<codecVars, resumeVars, guiVars>>

SpecObs == InitObs /\ [][NextObs]_vars

\* the machines of the runs the caller asks to stop
CancelConfigs == {DefaultTM, LoopTM}

InitCancel == InitMachineOn(CancelConfigs) /\ watch = NoWatch

\* resets, and runs with a callback that the caller asks to stop
NextCancel ==
    \/ \E input_string \in DetInputs :
          Reset(input_string) /\ ObsIdle /\ UNCHANGED <<codecVars, resumeVars, guiVars>>
    \/ \E d \in Delays :
          RunCallObs(DefaultMaxSteps, TRUE, d) /\ UNCHANGED <<codecVars, resumeVars, guiVars>>
    \/ RunIterObs /\ UNCHANGED <<codecVars, resumeVars, guiVars>>
    \/ Notify /\ UNCHANGED <<codecVars, resumeVars, guiVars>>
    \/ RequestCancel /\ UNCHANGED <<codecVars, resumeVars, guiVars>>
    \/ RunReturnObs /\ UNCHANGED <<codecVars, resumeVars, guiVars>>

SpecCancel == InitCancel /\ [][NextCancel]_vars

----------------------------------------------------------------------------
(* A run after a run: run(a); run(b) beside run(a + b), lines 47-59 *)

\* the comparison's bookkeeping when another operation comes in between
ResumeIdle ==
    /\ phase' = "none" /\ firstArg' = 0
    /\ UNCHANGED <<singleRes, splitRes>>

\* reset(input); run(a + b)
RunSingle ==
    /\ fresh /\ input = watch.input
    /\ RunCall(watch.n)
    /\ phase' = "single" /\ firstArg' = 0
    /\ UNCHANGED <<singleRes, splitRes>>

\* reset(input); run(a)
RunFirst(a) ==
    /\ fresh /\ input = watch.input
    /\ RunCall(a)
    /\ phase' = "first" /\ firstArg' = a
    /\ UNCHANGED <<singleRes, splitRes>>

\* run(b), called when run(a) has returned and nothing else was called
RunSecond ==
    /\ phase = "first" /\ lastOp = "run"
    /\ RunCall(watch.n - firstArg)
    /\ phase' = "second"
    /\ UNCHANGED <<firstArg, singleRes, splitRes>>

\* line 59, remembering what the single run and what the second run left
RunReturnResume ==
    /\ RunReturn
    /\ singleRes' = IF phase = "single"
                    THEN [seen |-> TRUE, r |-> FullResult(RunValue)]
                    ELSE singleRes
    /\ splitRes' = IF phase = "first"
                   THEN [seen |-> FALSE, firstExit |-> exit]
                   ELSE IF phase = "second"
                   THEN [seen |-> TRUE, firstExit |-> splitRes.firstExit,
                         r |-> FullResult(RunValue)]
                   ELSE splitRes
    /\ UNCHANGED <<phase, firstArg>>

\* the watched input, and the sum a + b of the two bounds
InitResume ==
    /\ InitMachine
    /\ watch \in [input : DetInputs, n : 2..MaxRun]

NextResume ==
    \/ \E input_string \in DetInputs :
          Reset(input_string) /\ ResumeIdle /\ UNCHANGED <<codecVars, obsVars, guiVars>>
    \/ StepCall /\ ResumeIdle /\ UNCHANGED <<codecVars, obsVars, guiVars>>
    \/ RunSingle /\ UNCHANGED <<codecVars, obsVars, guiVars>>
    \/ \E a \in 1..(watch.n - 1) :
          RunFirst(a) /\ UNCHANGED <<codecVars, obsVars, guiVars>>
    \/ RunSecond /\ UNCHANGED <<codecVars, obsVars, guiVars>>
    \/ RunIter /\ UNCHANGED extVars
    \/ RunReturnResume /\ UNCHANGED <<codecVars, obsVars, guiVars>>

SpecResume == InitResume /\ [][NextResume]_vars

----------------------------------------------------------------------------
(* The GUI's handlers, lines 165-181. on_run starts a daemon thread that    *)
(* calls run with draw_tape as callback; on_step and on_reset run on the    *)
(* main thread, and no handler looks whether a run is active. A thread is   *)
(* followed from one call of step() to the next; switches inside step()    *)
(* happen as well and are not followed here.                                *)

\* the main thread, beside the workers 1..MaxWorkers
MainThread == 0

\* a thread started by on_run has not finished
Running == \E w \in Workers : threads[w].pc # "idle"

\* the machine is changed by thread t: remembered while a run is active
Wrote(t, changed) == IF Running /\ changed THEN writers \cup {t} ELSE writers

\* on_run, lines 176-181: another thread is started and calls run
OnRun ==
    /\ \E w \in Workers :
          /\ threads[w].pc = "idle"
          /\ \A v \in Workers : v < w => threads[v].pc # "idle"
          /\ threads' = [threads EXCEPT ![w] = [pc |-> "loop", steps |-> 0]]
    /\ writers' = IF Running THEN writers ELSE {}
    /\ UNCHANGED <<cfgVars, runVars, frameVars, lastOp, ret, ghostVars,
                   watch, memo>>

\* one pass of thread w through the loop of run, lines 49-58; the callback
\* draw_tape only reads the machine. A thread is followed for MaxRun of its
\* steps.
WorkerIter(w) ==
    /\ threads[w].pc = "loop"
    /\ threads[w].steps < MaxRun
    /\ IF ~(threads[w].steps < DefaultMaxSteps) \/ Terminal
       THEN /\ threads' = [threads EXCEPT ![w].pc = "return"]
            /\ UNCHANGED <<runVars, ghostVars, writers>>
       ELSE /\ step
            /\ threads' = IF HasTransition
                          THEN [threads EXCEPT ![w].steps = @ + 1]
                          ELSE [threads EXCEPT ![w].pc = "return"]
            /\ writers' = Wrote(w, HasTransition)
            /\ UNCHANGED <<runFresh, runBase>>
    /\ UNCHANGED <<cfgVars, frameVars, lastOp, ret, watch, memo>>

\* line 59 in thread w, and the message box of line 180
WorkerReturn(w) ==
    /\ threads[w].pc = "return"
    /\ threads' = [threads EXCEPT ![w] = IdleFrame]
    /\ ret' = RunValue
    /\ lastOp' = "run"
    /\ UNCHANGED <<cfgVars, runVars, frameVars, ghostVars, watch, memo, writers>>

\* on_step, lines 171-174
OnStep ==
    /\ StepCall
    /\ writers' = Wrote(MainThread, HasTransition)
    /\ UNCHANGED threads

\* on_reset, lines 165-169: the table is parsed again from the text that
\* shows it, and the machine reset to the input of the entry
OnReset(inp) ==
    /\ Reset(inp)
    /\ writers' = Wrote(MainThread, TRUE)
    /\ UNCHANGED threads

\* the GUI starts on the machine of load_default_tm
InitGUI == InitMachineOn({DefaultTM}) /\ watch = NoWatch

NextGUI ==
    \/ \E inp \in DetInputs : OnReset(inp) /\ UNCHANGED <<codecVars, obsVars, resumeVars>>
    \/ OnStep /\ UNCHANGED <<codecVars, obsVars, resumeVars>>
    \/ OnRun /\ UNCHANGED <<codecVars, obsVars, resumeVars>>
    \/ \E w \in Workers : WorkerIter(w) /\ UNCHANGED <<codecVars, obsVars, resumeVars>>
    \/ \E w \in Workers : WorkerReturn(w) /\ UNCHANGED <<codecVars, obsVars, resumeVars>>

SpecGUI == InitGUI /\ [][NextGUI]_vars

----------------------------------------------------------------------------
(* Vocabulary of the properties *)

\* the machine holds configuration c
IsConfig(c) ==
    /\ transitions = c.transitions
    /\ start_state = c.start_state
    /\ accept_states = c.accept_states
    /\ reject_states = c.reject_states
    /\ blank_symbol = c.blank_symbol

\* a sequence without its leading blanks, and without its trailing ones
RECURSIVE StripLeft(_, _)
StripLeft(t, blank) ==
    IF t # <<>> /\ Head(t) = blank THEN StripLeft(Tail(t), blank) ELSE t

RECURSIVE StripRight(_, _)
StripRight(t, blank) ==
    IF t # <<>> /\ t[Len(t)] = blank
    THEN StripRight(SubSeq(t, 1, Len(t) - 1), blank)
    ELSE t

\* the tape content with leading and trailing blanks removed
Trimmed == StripRight(StripLeft(tape, blank_symbol), blank_symbol)

\* the number a string of binary digits denotes (the empty string denotes 0)
RECURSIVE BinValue(_)
BinValue(t) ==
    IF t = <<>> THEN 0
    ELSE 2 * BinValue(SubSeq(t, 1, Len(t) - 1)) + (IF t[Len(t)] = "1" THEN 1 ELSE 0)

IsBinary(t) == \A i \in 1..Len(t) : t[i] \in {"0", "1"}

AllOnes(t) == \A i \in 1..Len(t) : t[i] = "1"

\* a call of run on a freshly reset machine has returned, and it was not
\* stopped by its step bound
FreshRunDone ==
    /\ pc = "idle" /\ lastOp = "run" /\ runFresh
    /\ (max_steps = DefaultMaxSteps \/ exit # "limit")

----------------------------------------------------------------------------
(* C1: on the binary-increment machine, reset(input) followed by run() ends *)
(* in q_accept, run reports acceptance, and the tape without its leading    *)
(* and trailing blanks is the binary numeral of input + 1, as wide as the   *)
(* input and one digit wider when the input is all 1s.                      *)
C1_Increment ==
    (IsConfig(DefaultTM) /\ FreshRunDone) =>
        /\ current_state = "q_accept"
        /\ ret = TRUE
        /\ IsBinary(Trimmed)
        /\ BinValue(Trimmed) = BinValue(input) + 1
        /\ Len(Trimmed) = (IF AllOnes(input) THEN Len(input) + 1 ELSE Len(input))

\* the spec's example: input 1011 has been run to 1100
C1_Witness ==
    /\ IsConfig(DefaultTM) /\ FreshRunDone
    /\ max_steps = DefaultMaxSteps
    /\ input = <<"1", "0", "1", "1">>
    /\ Trimmed = <<"1", "1", "0", "0">>

----------------------------------------------------------------------------
(* Outcomes of a run *)

\* the invariants the data model asks of a configuration
ConfigValid ==
    /\ blank_symbol \in tape_alphabet
    /\ input_alphabet \subseteq tape_alphabet
    /\ start_state \in states
    /\ accept_states \subseteq states
    /\ reject_states \subseteq states
    /\ accept_states \cap reject_states = {}
    /\ \A k \in DOMAIN transitions :
          /\ k[1] \in states /\ k[2] \in tape_alphabet
          /\ transitions[k][1] \in states
          /\ transitions[k][2] \in tape_alphabet

\* a call of run has returned and nothing was called since
RunDone == pc = "idle" /\ lastOp = "run"

\* the applied steps of the active (or last) run
RunApplied == applied - runBase

\* The classified outcomes, read off the way the loop was left and the state
\* it was left in. The code has no cancellation, so no run is Cancelled.
Accepted == current_state \in accept_states
Rejected == current_state \in reject_states
Halted == exit = "halt"
Cancelled == FALSE
StepLimitExceeded == exit = "limit" /\ ~Accepted /\ ~Rejected

Outcomes ==
    {o \in {"Accepted", "Rejected", "Halted", "Cancelled", "StepLimitExceeded"} :
        \/ o = "Accepted" /\ Accepted
        \/ o = "Rejected" /\ Rejected
        \/ o = "Halted" /\ Halted
        \/ o = "Cancelled" /\ Cancelled
        \/ o = "StepLimitExceeded" /\ StepLimitExceeded}

\* while a run is active, and when it has returned: it has applied steps
\* steps, no more than max_steps; once returned, exactly one outcome applies,
\* Halted only where no transition is defined, and run returned True exactly
\* for Accepted
C2_Classified ==
    (ConfigValid /\ (pc # "idle" \/ RunDone)) =>
        /\ RunApplied = steps
        /\ steps <= max_steps
        /\ RunDone =>
              /\ Cardinality(Outcomes) = 1
              /\ Halted => ~HasTransition
              /\ ret = Accepted

\* every pass of the loop either leaves the loop or counts one more step
C2_Progress ==
    (pc = "loop" /\ pc' = "loop") => (steps' = steps + 1 /\ max_steps' = max_steps)

(* C2: for a valid configuration, any input and any max_steps >= 0, a call  *)
(* of run(max_steps) terminates after at most max_steps applied steps (each *)
(* pass of its loop returns or counts a step, and the count never exceeds   *)
(* max_steps), and when it has returned exactly one of Accepted, Rejected,  *)
(* Halted, Cancelled, StepLimitExceeded applies.                            *)
C2_RunTerminatesClassified == [](C2_Classified) /\ [][C2_Progress]_vars

\* a run has halted after applying steps, with steps to spare
C2_Witness ==
    /\ ConfigValid /\ RunDone
    /\ Outcomes = {"Halted"} /\ steps > 0 /\ steps < max_steps

(* C3: on a machine that never accepts, rejects or halts, run(N) applies    *)
(* exactly N steps and then ends with a StepLimitExceeded outcome that the  *)
(* caller can tell from Rejected and from Halted: it does not return the    *)
(* value False that a Rejected and a Halted run return.                     *)
C3_StepLimitDistinguished ==
    (IsConfig(LoopTM) /\ RunDone /\ max_steps \in 1..MaxRun) =>
        /\ RunApplied = max_steps
        /\ StepLimitExceeded
        /\ ret # FALSE

\* the part of C3 the code keeps: exactly N steps, ended by the bound
C3_ExactlyNSteps ==
    (IsConfig(LoopTM) /\ RunDone /\ max_steps \in 1..MaxRun) =>
        /\ RunApplied = max_steps
        /\ StepLimitExceeded

----------------------------------------------------------------------------
(* C4: run checks accept/reject membership before every step attempt: a     *)
(* pass of the loop that starts in an accepting or rejecting state leaves   *)
(* the loop without applying a transition; state, tape, head and history    *)
(* are unchanged, also when a transition is defined.                        *)
C4_TerminalBeforeStep ==
    [][ (pc = "loop" /\ current_state \in accept_states \cup reject_states)
            => (pc' = "return" /\ UNCHANGED runVars) ]_vars

\* a run has stopped in an accepting state that has a transition to take,
\* with steps to spare
C4_Witness ==
    /\ RunDone /\ exit = "terminal"
    /\ current_state \in accept_states
    /\ Key \in DOMAIN transitions
    /\ steps < max_steps

----------------------------------------------------------------------------
\* the key step looks up, from the machine's fields
LookupKey == <<current_state,
               IF 0 <= head /\ head < Len(tape) THEN tape[head + 1] ELSE blank_symbol>>

\* a call of step() by the caller happens in this step of the behaviour
CallerStep == pc = "idle" /\ pc' = "idle" /\ lastOp' = "step"

\* a call of step() by run happens in this step of the behaviour
RunStep == pc = "loop" /\ (pc' = "loop" \/ exit' = "halt")

(* C5: step() returns False exactly when no transition is defined for       *)
(* (current_state, symbol under the head, the blank outside the stored      *)
(* tape), and then state, tape, head and history are unchanged; otherwise   *)
(* it returns True. Holds of the calls the caller makes and of those run    *)
(* makes.                                                                   *)
C5_StepFalseIffNoTransition ==
    [][ /\ CallerStep =>
            /\ ret' = (LookupKey \in DOMAIN transitions)
            /\ ret' = FALSE => UNCHANGED runVars
        /\ RunStep =>
            /\ (exit' = "halt") = (LookupKey \notin DOMAIN transitions)
            /\ exit' = "halt" => UNCHANGED runVars ]_vars

\* step() has returned False on a machine that had applied steps before
C5_Witness ==
    /\ pc = "idle" /\ lastOp = "step" /\ ret = FALSE
    /\ history # <<>>

----------------------------------------------------------------------------
\* the conceptual cells that can have been visited
Cells == (0 - MaxHist - 1) .. (MaxLen + MaxHist + 1)

\* the content of conceptual cell p: the stored cell p + origin, the blank
\* outside the stored tape
Cell(p) ==
    IF 0 <= p + origin /\ p + origin < Len(tape)
    THEN tape[p + origin + 1]
    ELSE blank_symbol

(* C6: the list tape with its left and right extensions simulates a         *)
(* bi-infinite blank-filled tape: after reset(input) and any steps, the     *)
(* state, the head's conceptual position, the symbol under the head and the *)
(* content of every conceptual cell are those of the reference machine.     *)
C6_SimulatesInfiniteTape ==
    /\ current_state = refState
    /\ head - origin = refHead
    /\ LookupKey[2] = RefRead(refHead)
    /\ \A p \in Cells : Cell(p) = RefRead(p)

\* the tape has been extended on the right and twice on the left
C6_Witness ==
    /\ origin >= 2
    /\ Len(tape) > Len(input) + origin

----------------------------------------------------------------------------
\* the machine as it was before the last applied step, and the transition
\* that step took
LastPre == pre[applied]
LastTransition ==
    transitions[<<LastPre.state,
                  ReadSymbol(LastPre.tape, LastPre.head, blank_symbol)>>]

\* the last applied step started from an empty tape with head 0 and moved Left
EmptyTapeLeftStep ==
    /\ applied >= 1
    /\ LastPre.tape = <<>> /\ LastPre.head = 0
    /\ LastTransition[3] = "L"

(* C7 as stated: from an empty tape with head 0, one applied step that      *)
(* writes w and moves Left leaves a tape of length 1 holding w, with the    *)
(* head at index 0 and not at a negative index.                             *)
C7_HeadAtZero ==
    EmptyTapeLeftStep => (tape = <<LastTransition[2]>> /\ head = 0)

(* C7 as amended: from an empty tape with head 0, one applied step that     *)
(* writes w and moves Left leaves a tape of length 1 holding w at index 0,  *)
(* with the head at index -1, one cell left of the stored tape.             *)
C7_HeadLeftOfTape ==
    EmptyTapeLeftStep => (tape = <<LastTransition[2]>> /\ head = -1)

\* such a step has been applied, writing a symbol that is not the blank
C7_Witness ==
    /\ EmptyTapeLeftStep
    /\ LastTransition[2] # blank_symbol
    /\ Len(tape) = 1

----------------------------------------------------------------------------
\* the history's entries are those of the steps that returned True, in order
C8_HistoryIsTrace ==
    /\ Len(history) = applied
    /\ \A i \in 1..Len(history) :
          history[i] = <<pre[i].state, Join(pre[i].tape), pre[i].head>>

\* a step of the behaviour appends to the history or, being a reset, empties it
C8_AppendOnly ==
    \/ lastOp' = "reset" /\ history' = <<>>
    \/ /\ Len(history') >= Len(history)
       /\ SubSeq(history', 1, Len(history)) = history

(* C8: the history's length is the number of step() calls that returned     *)
(* True since the last reset, a step that returns False appends nothing,    *)
(* entries are only appended between resets, and the i-th entry is the      *)
(* (state, tape content, head) the machine had before the i-th applied step *)
C8_HistoryLog == [](C8_HistoryIsTrace) /\ [][C8_AppendOnly]_vars

\* several steps were applied, with a left extension among them, and then a
\* call of step() returned False
C8_Witness ==
    /\ Len(history) >= 3 /\ origin >= 1
    /\ pc = "idle" /\ lastOp = "step" /\ ret = FALSE

----------------------------------------------------------------------------
(* C9: reset(input) leaves the tape equal to the symbols of input (empty    *)
(* for the empty input), head 0, the start state and an empty history (no   *)
(* applied step counted), whatever the machine held before.                 *)
C9_ResetReinitialises ==
    (pc = "idle" /\ lastOp = "reset") =>
        /\ tape = input
        /\ head = 0
        /\ current_state = start_state
        /\ history = <<>>
        /\ applied = 0

\* a machine that had applied steps has been reset to a non-empty input
C9_Witness ==
    /\ pc = "idle" /\ lastOp = "reset" /\ dirtyReset
    /\ input # <<>>

----------------------------------------------------------------------------
\* a reset(input); run(N) of the watched input and N has returned
WatchedRunDone ==
    /\ RunDone /\ runFresh
    /\ watch = [input |-> input, n |-> max_steps]

(* C10: determinism: every execution of reset(input); run(N) returns the    *)
(* same value and leaves the same tape, head and state and a history of the *)
(* same length as the first one did, whatever was done in between.          *)
C10_Deterministic ==
    WatchedRunDone => (memo.seen >= 1 /\ memo.first = Result)

\* a later execution, stopped by its bound after steps that extended the tape
C10_Witness ==
    /\ WatchedRunDone /\ memo.seen = 2
    /\ exit = "limit" /\ steps >= 2
    /\ Len(tape) > Len(input)

----------------------------------------------------------------------------
\* a load has ended, and how
LoadDone == pc = "idle" /\ lastOp = "load"

(* C11: round trip: saving the configuration and loading the saved record   *)
(* gives a machine with the same state and alphabet sets, the same start,   *)
(* accept and reject sets and the same transition function, so that step()  *)
(* finds the same transitions as before.                                    *)
C11_RoundTrip ==
    (LoadDone /\ loadedSaved /\ loadResult = "ok") =>
        /\ CurrentConfig = savedCfg
        /\ \A k \in DOMAIN savedCfg.transitions :
              /\ k \in DOMAIN transitions
              /\ transitions[k] = savedCfg.transitions[k]

\* what the round trip keeps: every field but the transition table, whose
\* keys come back as strings
C11_RoundTripKeepsSets ==
    (LoadDone /\ loadedSaved /\ loadResult = "ok") =>
        /\ [CurrentConfig EXCEPT !.transitions = <<>>]
             = [savedCfg EXCEPT !.transitions = <<>>]
        /\ transitions = EncodeTransitions(savedCfg.transitions)

(* C12: loading is atomic: a load that fails leaves every field of the      *)
(* machine (configuration, current_state, tape, head, history) as it was    *)
(* before the call.                                                         *)
C12_LoadAtomic ==
    [][ (pc = "idle" /\ pc' = "idle" /\ lastOp' = "load" /\ loadResult' = "error")
            => UNCHANGED <<cfgVars, runVars>> ]_vars

----------------------------------------------------------------------------
\* the directions a table may name
Directions == {"L", "R"}

(* C13: a transition whose direction is outside {L, R} is refused when the  *)
(* table is accepted, before a run can reach it: the transition of every    *)
(* applied step names L or R, no step moved the head on the basis of        *)
(* another direction.                                                       *)
C13_NoInvalidDirection ==
    applied >= 1 => LastTransition[3] \in Directions

\* what the code does with such a direction: line 43 moves the head Left
C13_OtherDirectionMovesLeft ==
    [][ (applied' = applied + 1 /\ transitions[Key][3] # "R")
            => head' = HeadAfterWrite(tape, head) - 1 ]_vars

----------------------------------------------------------------------------
\* the run that has returned left its loop by the bound, after max_steps steps
BoundReached == RunDone /\ exit = "limit" /\ steps = max_steps /\ max_steps >= 1

(* C18: when the max_steps-th applied step of run(max_steps) puts the       *)
(* machine into an accepting (rejecting) state, the run is Accepted         *)
(* (Rejected) and not StepLimitExceeded; the step-limit outcome arises only *)
(* in a state neither accepting nor rejecting; a run that ends in a state   *)
(* both accepting and rejecting is reported as accepted.                    *)
C18_TerminalBeatsLimit ==
    /\ BoundReached =>
          /\ current_state \in accept_states =>
                (ret = TRUE /\ "StepLimitExceeded" \notin Outcomes)
          /\ current_state \in reject_states \ accept_states =>
                (ret = FALSE /\ Outcomes = {"Rejected"})
          /\ "StepLimitExceeded" \in Outcomes =>
                current_state \notin accept_states \cup reject_states
    /\ (RunDone /\ current_state \in accept_states \cap reject_states) =>
          (ret = TRUE /\ "Accepted" \in Outcomes)

\* the last step the bound allowed entered a state both accepting and rejecting
C18_Witness ==
    /\ BoundReached
    /\ current_state \in accept_states \cap reject_states

----------------------------------------------------------------------------
(* C19: in every state reachable by resets, steps and runs the head         *)
(* satisfies -1 <= head <= len(tape), and an applied step makes the tape    *)
(* at most one cell longer.                                                 *)
C19_HeadNearTape ==
    /\ [](-1 <= head /\ head <= Len(tape))
    /\ [][ applied' = applied + 1 =>
              (Len(tape') >= Len(tape) /\ Len(tape') <= Len(tape) + 1) ]_vars

\* a step has grown the tape on the left and left the head outside it again
C19_Witness ==
    /\ applied >= 2
    /\ head = -1
    /\ Len(tape) > Len(input) + 1

----------------------------------------------------------------------------
(* C20: reset(), step() and run() leave the configuration alone: states,    *)
(* the alphabets, the blank symbol, the table, the start state and the      *)
(* accept and reject sets never change.                                     *)
C20_ConfigUnchanged ==
    [][UNCHANGED cfgVars]_vars

\* a machine that was reset to an input and then run: the run applied steps,
\* left the start state and extended the tape
C20_Witness ==
    /\ RunDone /\ input # <<>>
    /\ steps >= 2
    /\ current_state # start_state
    /\ Len(tape) > Len(input)

----------------------------------------------------------------------------
(* C16: during run the callback is called exactly once after each applied   *)
(* step, seeing the machine as that step left it and before the next step   *)
(* is attempted, and never after a step that returned False or after the    *)
(* run has stopped in an accepting or rejecting state; a run with a         *)
(* callback that only looks, and any delay, returns the same value and      *)
(* leaves the same tape, head, state and history as one without.            *)
C16_ObserverOncePerStep ==
    /\ (pc # "idle" \/ RunDone) =>
          /\ notified = IF ~callback THEN 0
                        ELSE IF inCallback THEN steps - 1 ELSE steps
          /\ Len(obsLog) = notified
          /\ \A i \in 1..Len(obsLog) :
                obsLog[i] = IF runBase + i < applied
                            THEN pre[runBase + i + 1]
                            ELSE ObsSnapshot
          /\ inCallback => (pc = "loop" /\ exit = "none")
          /\ (RunDone /\ callback) => notified = RunApplied
    /\ WatchedRunDone =>
          /\ obsMemo.seen >= 1
          /\ obsMemo.first = FullResult(ret)

\* a run with a callback, compared with one without: it applied steps, was
\* notified of each and ended on a step that returned False
C16_Witness ==
    /\ WatchedRunDone /\ obsMemo.seen = 2
    /\ callback /\ delay = 1
    /\ exit = "halt" /\ notified >= 2

----------------------------------------------------------------------------
(* C15: run checks a cancellation request before every pass through its     *)
(* loop: once the caller has asked the run to stop, no further step is      *)
(* applied, and the run ends Cancelled with the machine as the last applied *)
(* step left it.                                                            *)
C15_CancelStopsRun ==
    cancelRequested =>
        /\ steps = cancelAt
        /\ RunDone => "Cancelled" \in Outcomes

----------------------------------------------------------------------------
(* C17: a run can be resumed: from the same starting state and without a    *)
(* reset in between, run(a) followed by run(b) leaves the same              *)
(* current_state, tape, head and history and returns the same value as one  *)
(* run(a + b).                                                              *)
C17_ResumeEqualsSingle ==
    (singleRes.seen /\ splitRes.seen) => singleRes.r = splitRes.r

\* both have been seen; the first run was stopped by its bound and the second
\* went on to apply steps
C17_Witness ==
    /\ singleRes.seen /\ splitRes.seen
    /\ splitRes.firstExit = "limit"
    /\ RunDone /\ phase = "second" /\ steps >= 1
    /\ Len(history) > firstArg

----------------------------------------------------------------------------
(* C14: no two operations on the machine execute at once: while a run is    *)
(* active on its worker thread no other thread resets or steps the machine  *)
(* or starts a second run, so tape, head and current_state are changed by   *)
(* one thread only for as long as a run lasts.                              *)
C14_OneThreadMutates ==
    /\ Cardinality({w \in Workers : threads[w].pc # "idle"}) <= 1
    /\ Cardinality(writers) <= 1

====
